---- MODULE Spec2Model ----
(***************************************************************************)
(* jiradep (src/main.py): walk the issue links of a JIRA issue, build a    *)
(* pygraphviz multigraph of them, decorate the nodes and draw the graph.   *)
(*                                                                         *)
(* The tracker is the environment.  What it answers for a key is chosen    *)
(* when the key is first fetched and is kept for the rest of the run (an   *)
(* issue does not change during a run); whether a request succeeds is      *)
(* chosen anew at every request.                                           *)
(***************************************************************************)
EXTENDS Integers, Sequences, FiniteSets, TLC

VARIABLES
    tracker,      \* per key: the link records and status the tracker answers,
                  \* and whether the link records were asked for yet
    limit,        \* how many link records the tracker may hold in this run
    driver,       \* the caller: "main", "walk", "expander" or "colouring"
    options,      \* the parsed command line (options.verbose)
    graph,        \* the pgv.AGraph: nodes in creation order, attributes, edges
    seen,         \* add_dependencies_to_graph: the list of keys walked
    stack,        \* the activation records of walk(), innermost last
    pc,           \* where the run is
    cursor,       \* position of a `for node in graph` loop in graph.nodes
    fetched,      \* the keys get_issue was called with, in call order
    probed,       \* update_shape_on_epics: the status code answered per node
    coloured,     \* update_graph_with_issue_progress: keys fetched by the pass
    passes,       \* the passes called after the walk, each with the graph it got
    failure       \* why the run stopped early ("" while it has not)

vars == <<tracker, limit, driver, options, graph, seen, stack, pc, cursor,
          fetched, probed, coloured, passes, failure>>

(***************************************************************************)
(* Bounds                                                                  *)
(***************************************************************************)
\* link records the tracker holds in a run of the walk alone
MaxRecords == 2
\* link records the tracker holds when passes follow the walk
MaxMainRecords == 1
\* issues in an epic's membership list
MaxMembers == 2
\* times a pass is called again on the graph
MaxRuns == 2
\* subtasks an issue has
MaxSubtasks == 1
\* link records each of two issues that link to each other has
MaxCycleLinks == 2

(***************************************************************************)
(* The tracker's data                                                      *)
(***************************************************************************)
None == "None"
Unknown == "Unknown"

start_issue_key == "DEMO-1"
Keys == {"DEMO-1", "DEMO-2", "DEMO-3"}

\* link['type']: the phrases of a link type
LinkTypes ==
    { [outward |-> "blocks", inward |-> "is blocked by"],
      [outward |-> "relates to", inward |-> "relates to"] }

\* one entry of issue['fields']['issuelinks']
LinkRecords ==
    { r \in [outwardIssue : Keys \cup {None},
             inwardIssue : Keys \cup {None},
             type : LinkTypes] :
        r.outwardIssue # None \/ r.inwardIssue # None }

StatusNames == {"To Do", "In Progress", "Done", "Blocked"}

\* issue['fields']['summary'] of the issue with this key
Summary(key) == "Summary of " \o key

RECURSIVE SeqsUpTo(_, _)
SeqsUpTo(S, n) ==
    IF n = 0 THEN {<<>>}
    ELSE LET shorter == SeqsUpTo(S, n - 1)
         IN  shorter \cup {Append(s, x) : s \in {t \in shorter : Len(t) = n - 1}, x \in S}

Range(s) == {s[i] : i \in 1..Len(s)}

RECURSIVE SumLen(_, _)
SumLen(links, keys) ==
    IF keys = {} THEN 0
    ELSE LET k == CHOOSE x \in keys : TRUE
         IN  Len(links[k]) + SumLen(links, keys \ {k})

\* link records the tracker has answered so far
Revealed == SumLen([k \in Keys |-> tracker[k].issuelinks], Keys)

\* the link lists the tracker may answer for a key it is asked for
LinksOf(key) ==
    IF tracker[key].revealed THEN {tracker[key].issuelinks}
    ELSE SeqsUpTo(LinkRecords, limit - Revealed)

\* the status names the tracker may answer for a key
StatusOf(key) ==
    IF tracker[key].status # Unknown THEN {tracker[key].status}
    ELSE StatusNames

(***************************************************************************)
(* pygraphviz AGraph(strict=False, directed=True)                          *)
(***************************************************************************)
NoAttr == [style |-> "", shape |-> "", label |-> "", penwidth |-> "", fillcolor |-> ""]

EmptyGraph == [nodes |-> <<>>, attr |-> <<>>, edges |-> <<>>]

NodeIndex(g, n) == CHOOSE i \in 1..Len(g.nodes) : g.nodes[i] = n

HasNode(g, n) == n \in Range(g.nodes)

\* AGraph.add_node without attributes: find the node, create it if absent
EnsureNode(g, n) ==
    IF HasNode(g, n) THEN g
    ELSE [g EXCEPT !.nodes = Append(@, n), !.attr = Append(@, NoAttr)]

\* node.attr.update(**attr): attrs is a set of <<name, value>>
RECURSIVE UpdateAttr(_, _)
UpdateAttr(a, attrs) ==
    IF attrs = {} THEN a
    ELSE LET p == CHOOSE x \in attrs : TRUE
         IN  UpdateAttr([a EXCEPT ![p[1]] = p[2]], attrs \ {p})

\* AGraph.add_node(n, **attr): the attributes are set on the node whether it
\* was just created or was there before
add_node(g, n, attrs) ==
    LET h == EnsureNode(g, n)
    IN  [h EXCEPT !.attr[NodeIndex(h, n)] = UpdateAttr(@, attrs)]

\* node.attr[name] = value
set_attr(g, n, name, value) ==
    [g EXCEPT !.attr[NodeIndex(g, n)][name] = value]

\* AGraph.add_edge(u, v, **attr): both ends are created if absent; the graph
\* is not strict and no key is given, so an edge is created every time
add_edge(g, u, v, label, color, penwidth) ==
    LET h == EnsureNode(EnsureNode(g, u), v)
    IN  [h EXCEPT !.edges = Append(@, [source |-> u, target |-> v, label |-> label,
                                       color |-> color, penwidth |-> penwidth])]

\* AGraph.edges(): the (source, target) tuples
edges(g) == [i \in 1..Len(g.edges) |-> <<g.edges[i].source, g.edges[i].target>>]

\* the pair is never found
PairInEdgesNever(u, v, g) == FALSE

\* `(u, v) in graph.edges()`: list membership, tuples compare by value
PairInEdges(u, v, g) == \E i \in 1..Len(g.edges) : edges(g)[i] = <<u, v>>

\* Python ==  between a str and a tuple: never equal
StrEqTuple(s, t) == FALSE

\* `key in graph.edges()` for a key that is a str
KeyInEdges(key, g) == \E i \in 1..Len(g.edges) : StrEqTuple(key, edges(g)[i])

NodeAttr(g, n) == g.attr[NodeIndex(g, n)]

(***************************************************************************)
(* add_dependencies_to_graph                                               *)
(***************************************************************************)
\* the label walk() gives a linked issue's node: key + "\n" + summary
NodeLabel(key) == key \o "\n" \o Summary(key)

\* the label walk() gives the edge of an outward link
OutwardLabel(link) == link.type.outward

\* the inward phrase instead of the outward one
InwardLabelInwardPhrase(link) == link.type.inward

\* the label walk() gives the edge of an inward link
InwardLabel(link) == link.type.outward

\* the edge of an outward link is drawn from the linked issue to the visited one
LinkOutwardReversed(st, issue_key, link) ==
    IF link.outwardIssue # None
       /\ ~PairInEdges(issue_key, link.outwardIssue, st.graph)
    THEN [graph |-> add_edge(add_node(st.graph, link.outwardIssue,
                                      {<<"style", "filled">>,
                                       <<"label", NodeLabel(link.outwardIssue)>>,
                                       <<"penwidth", "2.0">>}),
                             link.outwardIssue, issue_key, OutwardLabel(link), "", ""),
          children |-> Append(st.children, link.outwardIssue)]
    ELSE st

\* lines 62-66: the outwardIssue of one link record; st = [graph, children]
LinkOutward(st, issue_key, link) ==
    IF link.outwardIssue # None
       /\ ~PairInEdges(issue_key, link.outwardIssue, st.graph)
    THEN [graph |-> add_edge(add_node(st.graph, link.outwardIssue,
                                      {<<"style", "filled">>,
                                       <<"label", NodeLabel(link.outwardIssue)>>,
                                       <<"penwidth", "2.0">>}),
                             issue_key, link.outwardIssue, OutwardLabel(link), "", ""),
          children |-> Append(st.children, link.outwardIssue)]
    ELSE st

\* the inward issue gets its node and edge but is not collected as a child
LinkInwardNoChild(st, issue_key, link) ==
    IF link.inwardIssue # None
       /\ ~PairInEdges(link.inwardIssue, issue_key, st.graph)
    THEN [graph |-> add_edge(add_node(st.graph, link.inwardIssue,
                                      {<<"style", "filled">>,
                                       <<"label", NodeLabel(link.inwardIssue)>>,
                                       <<"penwidth", "2.0">>}),
                             link.inwardIssue, issue_key, InwardLabel(link), "", ""),
          children |-> st.children]
    ELSE st

\* lines 67-71: the inwardIssue of one link record
LinkInward(st, issue_key, link) ==
    IF link.inwardIssue # None
       /\ ~PairInEdges(link.inwardIssue, issue_key, st.graph)
    THEN [graph |-> add_edge(add_node(st.graph, link.inwardIssue,
                                      {<<"style", "filled">>,
                                       <<"label", NodeLabel(link.inwardIssue)>>,
                                       <<"penwidth", "2.0">>}),
                             link.inwardIssue, issue_key, InwardLabel(link), "", ""),
          children |-> Append(st.children, link.inwardIssue)]
    ELSE st

\* lines 61-71: the loop over issue['fields']['issuelinks'], from record i on
RECURSIVE AddLinks(_, _, _, _)
AddLinks(st, issue_key, links, i) ==
    IF i > Len(links) THEN st
    ELSE AddLinks(LinkInward(LinkOutward(st, issue_key, links[i]), issue_key, links[i]),
                  issue_key, links, i + 1)

\* the key is not recorded
MarkSeenForgets(list, issue_key) == list

\* line 57: seen.append(issue_key)
MarkSeen(list, issue_key) == Append(list, issue_key)

\* the last child that is not in seen is taken first
NextChildReversed(children, from, seenNow) ==
    LET open == {i \in from..Len(children) : children[i] \notin Range(seenNow)}
    IN  IF open = {} THEN 0 ELSE CHOOSE i \in open : \A j \in open : i >= j

\* line 73: the generator (x for x in children if x not in seen) is lazy: a
\* child is tested against seen when the loop asks for it.  The first
\* position from `from` on whose child is not in seen, 0 if there is none
NextChild(children, from, seenNow) ==
    LET open == {i \in from..Len(children) : children[i] \notin Range(seenNow)}
    IN  IF open = {} THEN 0 ELSE CHOOSE i \in open : \A j \in open : i <= j

Top == stack[Len(stack)]

Frame(issue_key) == [issue_key |-> issue_key, at |-> "fetch", children |-> <<>>, next |-> 1]

\* where the run goes when add_dependencies_to_graph returns
AfterWalk ==
    IF driver = "main" THEN "shape" ELSE IF driver = "walk" THEN "walked" ELSE "idle"

\* lines 47, 78: seen = [] and walk(graph.nodes()[0], graph)
WalkStart ==
    /\ pc = "start"
    /\ seen' = <<>>
    /\ stack' = <<Frame(graph.nodes[1])>>
    /\ pc' = "walk"
    /\ UNCHANGED <<tracker, limit, driver, options, graph, cursor, fetched,
                   probed, coloured, passes, failure>>

\* the error is kept to the failing issue: its walk returns and the rest goes on
WalkFetchRaisesIsolated ==
    /\ pc = "walk" /\ Top.at = "fetch"
    /\ fetched' = Append(fetched, Top.issue_key)
    /\ failure' = "walk: get_issue raised"
    /\ stack' = SubSeq(stack, 1, Len(stack) - 1)
    /\ pc' = IF Len(stack) = 1 THEN AfterWalk ELSE pc
    /\ UNCHANGED <<tracker, limit, driver, options, graph, seen, cursor,
                   probed, coloured, passes>>

\* lines 51-55: get_issue raises (requests.get fails); walk prints and
\* raises in turn, and nothing catches it
WalkFetchRaises ==
    /\ pc = "walk" /\ Top.at = "fetch"
    /\ fetched' = Append(fetched, Top.issue_key)
    /\ pc' = "aborted"
    /\ failure' = "walk: get_issue raised"
    /\ UNCHANGED <<tracker, limit, driver, options, graph, seen, stack, cursor,
                   probed, coloured, passes>>

\* lines 52, 57, 61: get_issue answers None (status code other than 200);
\* the key is appended to seen and issue['fields'] raises TypeError
WalkFetchAbsent ==
    /\ pc = "walk" /\ Top.at = "fetch"
    /\ fetched' = Append(fetched, Top.issue_key)
    /\ seen' = MarkSeen(seen, Top.issue_key)
    /\ pc' = "aborted"
    /\ failure' = "walk: issue is None"
    /\ UNCHANGED <<tracker, limit, driver, options, graph, stack, cursor,
                   probed, coloured, passes>>

\* lines 52-71: get_issue answers the issue; mark it seen, add its links
WalkFetch ==
    /\ pc = "walk" /\ Top.at = "fetch"
    /\ \E links \in LinksOf(Top.issue_key) :
         LET st == AddLinks([graph |-> graph, children |-> <<>>], Top.issue_key, links, 1)
         IN  /\ tracker' = [tracker EXCEPT ![Top.issue_key] =
                              [@ EXCEPT !.revealed = TRUE, !.issuelinks = links]]
             /\ graph' = st.graph
             /\ stack' = [stack EXCEPT ![Len(stack)] =
                            [@ EXCEPT !.at = "loop", !.children = st.children]]
    /\ fetched' = Append(fetched, Top.issue_key)
    /\ seen' = MarkSeen(seen, Top.issue_key)
    /\ UNCHANGED <<limit, driver, options, pc, cursor, probed, coloured, passes,
                   failure>>

\* lines 73-74: the next child that is not in seen is walked
WalkRecurse ==
    /\ pc = "walk" /\ Top.at = "loop"
    /\ LET i == NextChild(Top.children, Top.next, seen)
       IN  /\ i # 0
           /\ stack' = Append([stack EXCEPT ![Len(stack)].next = i + 1],
                              Frame(Top.children[i]))
    /\ UNCHANGED <<tracker, limit, driver, options, graph, seen, pc, cursor,
                   fetched, probed, coloured, passes, failure>>

\* lines 75, 78-79: no child is left; walk returns the graph to its caller
WalkReturn ==
    /\ pc = "walk" /\ Top.at = "loop"
    /\ NextChild(Top.children, Top.next, seen) = 0
    /\ stack' = SubSeq(stack, 1, Len(stack) - 1)
    /\ pc' = IF Len(stack) = 1 THEN AfterWalk ELSE pc
    /\ cursor' = IF Len(stack) = 1 THEN 1 ELSE cursor
    /\ UNCHANGED <<tracker, limit, driver, options, graph, seen,
                   fetched, probed, coloured, passes, failure>>

Walk == WalkStart \/ WalkFetchRaises \/ WalkFetchAbsent \/ WalkFetch
        \/ WalkRecurse \/ WalkReturn

(***************************************************************************)
(* update_shape_on_epics                                                   *)
(***************************************************************************)
\* lines 88-89: the effect of the epic probe's status code on the node
ShapeNode(g, node, status_code) ==
    IF status_code = 200 THEN set_attr(g, node, "shape", "folder") ELSE g

\* the loop stops one node early
LoopDoneEarly == cursor >= Len(graph.nodes) - 1

\* lines 85, 114: `for node in graph` has taken its last node
LoopDone == cursor = Len(graph.nodes)

\* lines 85-90: one node of the loop; the probe answers a status code
ShapeProbe ==
    /\ pc = "shape" /\ cursor <= Len(graph.nodes)
    /\ \E status_code \in {200, 404} :
         /\ graph' = ShapeNode(graph, graph.nodes[cursor], status_code)
         /\ probed' = Append(probed, [node |-> graph.nodes[cursor],
                                      status_code |-> status_code])
    /\ pc' = IF LoopDone THEN "verbose" ELSE pc
    /\ cursor' = IF LoopDone THEN 1 ELSE cursor + 1
    /\ UNCHANGED <<tracker, limit, driver, options, seen, stack, fetched,
                   coloured, passes, failure>>

\* line 87: requests.get raises; nothing catches it
ShapeProbeRaises ==
    /\ pc = "shape" /\ cursor <= Len(graph.nodes)
    /\ pc' = "aborted"
    /\ failure' = "update_shape_on_epics: requests.get raised"
    /\ UNCHANGED <<tracker, limit, driver, options, graph, seen, stack, cursor,
                   fetched, probed, coloured, passes>>

(***************************************************************************)
(* get_issues_in_epic, add_issues_to_graph                                 *)
(***************************************************************************)
\* epic["issues"] as the list of the issues' keys
MemberLists == SeqsUpTo(Keys, MaxMembers)

\* the membership edge is drawn from the issue to the epic
AddIssueReversed(g, key, epic_key) ==
    IF ~KeyInEdges(key, g)
    THEN add_edge(add_node(g, key, {<<"style", "filled">>, <<"penwidth", "2.0">>}),
                  key, epic_key, "", "blue", "0.5")
    ELSE g

\* lines 106-108: one issue of the epic
AddIssue(g, key, epic_key) ==
    IF ~KeyInEdges(key, g)
    THEN add_edge(add_node(g, key, {<<"style", "filled">>, <<"penwidth", "2.0">>}),
                  epic_key, key, "", "blue", "0.5")
    ELSE g

\* lines 104-110: the loop over epic["issues"], from issue i on
RECURSIVE AddIssuesFrom(_, _, _, _)
AddIssuesFrom(g, issues, epic_key, i) ==
    IF i > Len(issues) THEN g
    ELSE AddIssuesFrom(AddIssue(g, issues[i], epic_key), issues, epic_key, i + 1)

add_issues_to_graph(g, epic, epic_key) == AddIssuesFrom(g, epic.issues, epic_key, 1)

(***************************************************************************)
(* update_graph_with_issue_progress                                        *)
(***************************************************************************)
\* the colours of two status names changed over
FillColourMixedUp(name) ==
    IF name = "To Do" THEN "white"
    ELSE IF name = "In Progress" THEN "green"
    ELSE IF name = "Done" THEN "yellow"
    ELSE ""

\* lines 122-127: the fill colour a status name sets, "" when it sets none
FillColour(name) ==
    IF name = "To Do" THEN "white"
    ELSE IF name = "In Progress" THEN "yellow"
    ELSE IF name = "Done" THEN "green"
    ELSE ""

\* lines 122-127 on one node
ColourNode(g, node, name) ==
    IF FillColour(name) # "" THEN set_attr(g, node, "fillcolor", FillColour(name)) ELSE g

\* where the run goes when update_graph_with_issue_progress returns
AfterColour == IF driver = "main" THEN "render" ELSE "idle"

\* lines 114-127: one node of the loop; get_issue answers the issue
ColourFetch ==
    /\ pc = "colour" /\ cursor <= Len(graph.nodes)
    /\ \E name \in StatusOf(graph.nodes[cursor]) :
         /\ tracker' = [tracker EXCEPT ![graph.nodes[cursor]].status = name]
         /\ graph' = ColourNode(graph, graph.nodes[cursor], name)
    /\ fetched' = Append(fetched, graph.nodes[cursor])
    /\ coloured' = Append(coloured, graph.nodes[cursor])
    /\ pc' = IF LoopDone THEN AfterColour ELSE pc
    /\ cursor' = IF LoopDone THEN 1 ELSE cursor + 1
    /\ UNCHANGED <<limit, driver, options, seen, stack, probed, passes, failure>>

\* lines 117, 122: get_issue answers None; issue["fields"] raises TypeError
\* outside the try, and nothing catches it
ColourFetchAbsent ==
    /\ pc = "colour" /\ cursor <= Len(graph.nodes)
    /\ fetched' = Append(fetched, graph.nodes[cursor])
    /\ coloured' = Append(coloured, graph.nodes[cursor])
    /\ pc' = "aborted"
    /\ failure' = "update_graph_with_issue_progress: issue is None"
    /\ UNCHANGED <<tracker, limit, driver, options, graph, seen, stack, cursor,
                   probed, passes>>

\* lines 116-120: get_issue raises; the pass prints and raises in turn
ColourFetchRaises ==
    /\ pc = "colour" /\ cursor <= Len(graph.nodes)
    /\ fetched' = Append(fetched, graph.nodes[cursor])
    /\ coloured' = Append(coloured, graph.nodes[cursor])
    /\ pc' = "aborted"
    /\ failure' = "update_graph_with_issue_progress: get_issue raised"
    /\ UNCHANGED <<tracker, limit, driver, options, graph, seen, stack, cursor,
                   probed, passes>>

Colour == ColourFetch \/ ColourFetchAbsent \/ ColourFetchRaises

(***************************************************************************)
(* __main__                                                                *)
(***************************************************************************)
PyBool(b) == [type |-> "bool", value |-> b]
PyStr(x) == [type |-> "str", value |-> x]

\* Python == between a bool and a str, or two of a kind
PyEq(a, b) == a.type = b.type /\ a.value = b.value

\* line 142: options.verbose is the default False or the string given to -v
VerboseValues == {PyBool("False"), PyStr("True")}

\* line 172
VerboseOn == PyEq(options.verbose, PyBool("True"))

\* what get_issues_in_epic may answer: None, or the epic's issues
EpicAnswers == {None} \cup {[issues |-> m] : m \in MemberLists}

\* lines 172-174: only with options.verbose == True are the epic's issues
\* fetched and added; epic["issues"] raises TypeError when the answer is None
MainVerbose ==
    /\ pc = "verbose"
    /\ IF VerboseOn
       THEN /\ \E epic \in EpicAnswers :
              IF epic = None
              THEN /\ pc' = "aborted"
                   /\ failure' = "add_issues_to_graph: epic is None"
                   /\ UNCHANGED graph
              ELSE /\ graph' = add_issues_to_graph(graph, epic, start_issue_key)
                   /\ pc' = "colour"
                   /\ UNCHANGED failure
            /\ passes' = Append(passes, [pass |-> "get_issues_in_epic",
                                         epic_key |-> start_issue_key, graph |-> graph])
       ELSE /\ pc' = "colour"
            /\ UNCHANGED <<graph, failure, passes>>
    /\ UNCHANGED <<tracker, limit, driver, options, seen, stack, cursor,
                   fetched, probed, coloured>>

\* lines 131-134, 180: create_graph_image draws the graph
Render ==
    /\ pc = "render"
    /\ pc' = "done"
    /\ UNCHANGED <<tracker, limit, driver, options, graph, seen, stack, cursor,
                   fetched, probed, coloured, passes, failure>>

(***************************************************************************)
(* The passes called again on the graph the walk returned                  *)
(***************************************************************************)
\* add_issues_to_graph(graph, epic, epic_key) on any membership list
CallExpander ==
    /\ pc = "idle" /\ driver = "expander"
    /\ Len(passes) < MaxRuns
    /\ \E issues \in MemberLists, epic_key \in Keys :
         /\ graph' = add_issues_to_graph(graph, [issues |-> issues], epic_key)
         /\ passes' = Append(passes, [pass |-> "add_issues_to_graph",
                                      issues |-> issues, epic_key |-> epic_key,
                                      graph |-> graph])
    /\ UNCHANGED <<tracker, limit, driver, options, seen, stack, pc, cursor,
                   fetched, probed, coloured, failure>>

\* update_graph_with_issue_progress(graph, get_issue) is called
CallColouring ==
    /\ pc = "idle" /\ driver = "colouring"
    /\ Len(passes) < MaxRuns
    /\ passes' = Append(passes, [pass |-> "update_graph_with_issue_progress",
                                 graph |-> graph])
    /\ pc' = "colour"
    /\ cursor' = 1
    /\ coloured' = <<>>
    /\ UNCHANGED <<tracker, limit, driver, options, graph, seen, stack,
                   fetched, probed, failure>>

(***************************************************************************)
(* The run                                                                 *)
(***************************************************************************)
\* lines 161-163: the graph __main__ hands to add_dependencies_to_graph
StartGraph ==
    add_node(EmptyGraph, start_issue_key,
             {<<"style", "filled">>, <<"shape", "folder">>, <<"penwidth", "2.0">>})

NoTracker ==
    [k \in Keys |-> [revealed |-> FALSE, issuelinks |-> <<>>, status |-> Unknown,
                     subtasks |-> <<>>]]

\* issue['fields']['subtasks'] as the list of the subtasks' keys
SubtaskLists == SeqsUpTo(Keys, MaxSubtasks)

InitWith(who, records, verbose) ==
    /\ tracker = NoTracker
    /\ limit = records
    /\ driver = who
    /\ options = [verbose |-> verbose]
    /\ graph = StartGraph
    /\ seen = <<>>
    /\ stack = <<>>
    /\ pc = "start"
    /\ cursor = 0
    /\ fetched = <<>>
    /\ probed = <<>>
    /\ coloured = <<>>
    /\ passes = <<>>
    /\ failure = ""

\* the program: lines 150-180
Init == \E verbose \in VerboseValues : InitWith("main", MaxMainRecords, verbose)

Next == Walk \/ ShapeProbe \/ ShapeProbeRaises
        \/ MainVerbose
        \/ Colour \/ Render

Spec == Init /\ [][Next]_vars

\* add_dependencies_to_graph alone, on the graph __main__ builds
InitWalk == InitWith("walk", MaxRecords, PyBool("False"))

NextWalk == Walk

SpecWalk == InitWalk /\ [][NextWalk]_vars

\* add_dependencies_to_graph on issues that have subtasks
InitSubtasks ==
    /\ \E subtasks \in [Keys -> SubtaskLists] :
          tracker = [k \in Keys |-> [NoTracker[k] EXCEPT !.subtasks = subtasks[k]]]
    /\ limit = MaxMainRecords
    /\ driver = "walk"
    /\ options = [verbose |-> PyBool("False")]
    /\ graph = StartGraph
    /\ seen = <<>>
    /\ stack = <<>>
    /\ pc = "start"
    /\ cursor = 0
    /\ fetched = <<>>
    /\ probed = <<>>
    /\ coloured = <<>>
    /\ passes = <<>>
    /\ failure = ""

SpecSubtasks == InitSubtasks /\ [][NextWalk]_vars

\* the walk, then add_issues_to_graph any number of times
InitExpand == InitWith("expander", MaxMainRecords, PyBool("False"))

NextExpand == Walk \/ CallExpander

SpecExpand == InitExpand /\ [][NextExpand]_vars

\* add_dependencies_to_graph on two issues that link to each other: the start
\* issue and one other, whose link records name the other issue only; each
\* has an outward record to the other and may have more records (the mirrored
\* inward record, repeated records)
CycleRecords(other) ==
    {r \in LinkRecords : {r.outwardIssue, r.inwardIssue} \subseteq {other, None}}

CycleLists(other) ==
    {l \in SeqsUpTo(CycleRecords(other), MaxCycleLinks) :
        \E i \in 1..Len(l) : l[i].outwardIssue = other}

InitCycle ==
    /\ \E y \in Keys \ {start_issue_key} :
         \E lx \in CycleLists(y), ly \in CycleLists(start_issue_key) :
            /\ tracker = [k \in Keys |->
                            IF k = start_issue_key
                            THEN [NoTracker[k] EXCEPT !.revealed = TRUE, !.issuelinks = lx]
                            ELSE IF k = y
                            THEN [NoTracker[k] EXCEPT !.revealed = TRUE, !.issuelinks = ly]
                            ELSE NoTracker[k]]
            /\ limit = Len(lx) + Len(ly)
    /\ driver = "walk"
    /\ options = [verbose |-> PyBool("False")]
    /\ graph = StartGraph
    /\ seen = <<>>
    /\ stack = <<>>
    /\ pc = "start"
    /\ cursor = 0
    /\ fetched = <<>>
    /\ probed = <<>>
    /\ coloured = <<>>
    /\ passes = <<>>
    /\ failure = ""

SpecCycle == InitCycle /\ [][NextWalk]_vars

\* the walk, then one call of add_issues_to_graph on the walked graph
CallExpanderOnce ==
    /\ passes = <<>>
    /\ CallExpander

NextMembers == Walk \/ CallExpanderOnce

SpecMembers == InitExpand /\ [][NextMembers]_vars

\* the walk, then update_graph_with_issue_progress any number of times
InitColour == InitWith("colouring", MaxMainRecords, PyBool("False"))

NextColour == Walk \/ CallColouring \/ Colour

SpecColour == InitColour /\ [][NextColour]_vars

(***************************************************************************)
(* Properties                                                              *)
(***************************************************************************)
Last(s) == s[Len(s)]

\* how often x occurs in the list s
Count(s, x) == Cardinality({i \in 1..Len(s) : s[i] = x})

\* the number of edges of the graph from a to b
EdgeCount(g, a, b) ==
    Cardinality({i \in 1..Len(g.edges) : g.edges[i].source = a /\ g.edges[i].target = b})

\* C1: for all ordered pairs (a, b), in every state reached by the walk and
\* then add_issues_to_graph any number of times on any membership list, the
\* graph holds at most one edge from a to b
C1_AtMostOneEdgePerPair ==
    \A a \in Keys, b \in Keys : EdgeCount(graph, a, b) <= 1

\* C3: calling add_issues_to_graph a second time with the same membership
\* list and epic key leaves the collection of edges as the first call left it
C3_ExpanderIdempotent ==
    \A n \in 2..Len(passes) :
        (/\ passes[n].pass = "add_issues_to_graph"
         /\ passes[n - 1].pass = "add_issues_to_graph"
         /\ passes[n].issues = passes[n - 1].issues
         /\ passes[n].epic_key = passes[n - 1].epic_key)
        => LET after == IF n = Len(passes) THEN graph ELSE passes[n + 1].graph
           IN  after.edges = passes[n].graph.edges

\* the keys a fetched issue's link records name
LinkedKeys(key) ==
    UNION {{r.outwardIssue, r.inwardIssue} \ {None} : r \in Range(tracker[key].issuelinks)}

RECURSIVE ReachFrom(_)
ReachFrom(keys) ==
    LET more == keys \cup UNION {LinkedKeys(k) : k \in keys}
    IN  IF more = keys THEN keys ELSE ReachFrom(more)

\* the keys reachable from the start key through outward/inward link records
LinkReachable == ReachFrom({start_issue_key})

C2_FetchedOnce ==
    failure = "" =>
        /\ \A k \in Keys : Count(fetched, k) <= 1
        /\ pc = "walked" =>
             \A k \in Keys : Count(fetched, k) = IF k \in LinkReachable THEN 1 ELSE 0

\* the children the activation records from i on have still to take
RECURSIVE ChildrenLeft(_)
ChildrenLeft(i) ==
    IF i > Len(stack) THEN 0
    ELSE (Len(stack[i].children) + 1 - stack[i].next) + ChildrenLeft(i + 1)

\* the work a walk has left: keys not yet seen (a visit adds at most two
\* children per link record), children still to take, records still open
WalkMeasure ==
    IF pc \in {"walked", "aborted"} THEN 0
    ELSE 6 * limit * Cardinality(Keys \ Range(seen))
         + 3 * ChildrenLeft(1)
         + Len(stack)
         + Cardinality({i \in 1..Len(stack) : stack[i].at = "fetch"})
         + (IF pc = "start" THEN 3 ELSE 0)

\* C2: on any link data, cycles, self-links and several paths to a key
\* included, the walk terminates (every step uses up some of the work left,
\* and the walk stops only when it has returned or raised), and with every
\* fetch succeeding it has then called get_issue exactly once for every key
\* reachable from the start key through link records, and for no other key
C2_WalkTerminatesFetchingOnce ==
    /\ []C2_FetchedOnce
    /\ [](WalkMeasure >= 0 /\ (pc \in {"walked", "aborted"} \/ ENABLED NextWalk))
    /\ [][WalkMeasure' < WalkMeasure]_vars

\* a finished walk over three issues joined by at least three edges: a cycle
\* or two paths to one key, and a key met again after it was seen
C2_Witness ==
    /\ pc = "walked"
    /\ Cardinality(Range(fetched)) = 3
    /\ Len(graph.edges) >= 3
    /\ \E k \in Keys : Cardinality({i \in 1..Len(graph.edges) : graph.edges[i].target = k}) >= 2

\* link record r of issue a gives the ordered pair (u, v)
Yields(r, a, u, v) ==
    \/ u = a /\ v = r.outwardIssue
    \/ v = a /\ u = r.inwardIssue

C4_VisitStep ==
    /\ Len(fetched') = Len(fetched) + 1
    /\ failure' = ""

C4_EdgesOfVisit ==
    LET a == Last(fetched')
        links == tracker'[a].issuelinks
        new == (Len(graph.edges) + 1)..Len(graph'.edges)
    IN  /\ \A r \in Range(links) :
              /\ r.outwardIssue # None => EdgeCount(graph', a, r.outwardIssue) >= 1
              /\ r.inwardIssue # None => EdgeCount(graph', r.inwardIssue, a) >= 1
        /\ \A i \in new :
              LET e == graph'.edges[i]
                  from == {j \in 1..Len(links) : Yields(links[j], a, e.source, e.target)}
              IN  /\ from # {}
                  /\ e.label = links[CHOOSE j \in from : \A m \in from : j <= m].type.outward

\* C4: when issue A is visited, every link record with an outward target B
\* leaves the edge (A -> B) in the graph and every record with an inward
\* target C leaves the edge (C -> A), and every edge the visit creates is
\* labelled with the type.outward phrase of the record that created it (the
\* first record of A that gives its ordered pair), whatever its direction
C4_EdgesCarryOutwardPhrase == [][C4_VisitStep => C4_EdgesOfVisit]_vars

\* an inward record whose type has different phrases made the edge into the
\* visited issue, and an outward record made an edge out of it
C4_Witness ==
    \E a \in Range(seen) :
        /\ \E r \in Range(tracker[a].issuelinks), i \in 1..Len(graph.edges) :
              /\ r.inwardIssue # None /\ r.inwardIssue # a
              /\ r.type.outward # r.type.inward
              /\ ~tracker[r.inwardIssue].revealed
              /\ graph.edges[i] = [source |-> r.inwardIssue, target |-> a,
                                   label |-> r.type.outward, color |-> "", penwidth |-> ""]
        /\ \E r \in Range(tracker[a].issuelinks), i \in 1..Len(graph.edges) :
              /\ r.outwardIssue # None
              /\ graph.edges[i].source = a /\ graph.edges[i].target = r.outwardIssue
              /\ graph.edges[i].label = r.type.outward

\* C5: when a fetch raises during the walk the walk is over: the exception
\* leaves add_dependencies_to_graph (the walk never returns), nothing is
\* fetched or added afterwards, and the failed key was fetched once
C5_RaiseAbortsWalk ==
    /\ [](failure = "walk: get_issue raised" =>
            /\ pc = "aborted"
            /\ Count(fetched, Last(fetched)) = 1)
    /\ [][failure = "walk: get_issue raised" =>
            UNCHANGED <<fetched, graph, seen, stack, pc>>]_vars

\* the fetch of a child raised while its parent still had a child to walk
C5_Witness ==
    /\ failure = "walk: get_issue raised"
    /\ Len(stack) >= 2
    /\ \E i \in stack[1].next..Len(stack[1].children) :
          stack[1].children[i] \notin Range(fetched)

\* C6: a not-found answer (get_issue or get_issues_in_epic returning None)
\* is an ordinary empty result for the colouring pass and the Epic Expander:
\* the run does not stop on it
C6_NotFoundDoesNotAbort ==
    failure \notin {"update_graph_with_issue_progress: issue is None",
                    "add_issues_to_graph: epic is None"}

\* the fill colour the specification's table gives a status name, `other`
\* for a name outside the table
TableColour(name, other) ==
    CASE name = "To Do" -> "white"
      [] name = "In Progress" -> "yellow"
      [] name = "Done" -> "green"
      [] OTHER -> other

\* the nodes the running (or last) colouring pass has dealt with
C7_Done ==
    IF failure = "" THEN Range(coloured) ELSE Range(coloured) \ {Last(coloured)}

\* C7: the colouring pass gives a node with status "To Do" the fill colour
\* white, "In Progress" yellow, "Done" green, and leaves the fill colour of a
\* node with any other status (and of the nodes it has not reached) as it
\* was; a pass called again on the same issues changes no fill colour
C7_StatusColouring ==
    Len(passes) >= 1 =>
        LET before == passes[Len(passes)].graph
        IN  /\ \A n \in Range(graph.nodes) :
                  NodeAttr(graph, n).fillcolor =
                      IF n \in C7_Done
                      THEN TableColour(tracker[n].status, NodeAttr(before, n).fillcolor)
                      ELSE NodeAttr(before, n).fillcolor
            /\ (Len(passes) >= 2 /\ pc = "idle") =>
                  \A n \in Range(graph.nodes) :
                      NodeAttr(graph, n).fillcolor = NodeAttr(before, n).fillcolor

\* the pass has run twice over three nodes: two with colours of the table,
\* one with a status outside it
C7_Witness ==
    /\ Len(passes) = 2 /\ pc = "idle"
    /\ Len(graph.nodes) = 3
    /\ tracker[graph.nodes[1]].status = "In Progress"
    /\ NodeAttr(graph, graph.nodes[1]).fillcolor = "yellow"
    /\ tracker[graph.nodes[2]].status = "Done"
    /\ NodeAttr(graph, graph.nodes[2]).fillcolor = "green"
    /\ tracker[graph.nodes[3]].status = "Blocked"
    /\ NodeAttr(graph, graph.nodes[3]).fillcolor = ""

\* the epic probe of this node answered 200
ProbeSucceeded(n) ==
    \E i \in 1..Len(probed) : probed[i] = [node |-> n, status_code |-> 200]

\* C8: for a start key whose issue has no links and is not an epic, the
\* drawn graph has exactly one node, the start key, with the default shape
\* and the fill colour of its status
C8_LoneStartNode ==
    (/\ pc = "done"
     /\ tracker[start_issue_key].issuelinks = <<>>
     /\ ~ProbeSucceeded(start_issue_key))
    => /\ graph.nodes = <<start_issue_key>>
       /\ NodeAttr(graph, start_issue_key).shape = ""
       /\ NodeAttr(graph, start_issue_key).fillcolor =
              TableColour(tracker[start_issue_key].status, "")

\* C9: the colouring pass runs after every structural pass (once it has
\* begun, no node and no edge is added) and fetches every node once: every
\* node of the drawn graph was fetched exactly once by the pass, in node
\* order, and has the fill colour of its status, none for a status outside
\* the table
C9_ColouringCoversDrawnGraph ==
    /\ [](pc = "done" =>
            /\ coloured = graph.nodes
            /\ \A n \in Range(graph.nodes) :
                  /\ Count(coloured, n) = 1
                  /\ NodeAttr(graph, n).fillcolor = TableColour(tracker[n].status, ""))
    /\ [][(pc \in {"colour", "render", "done"}) =>
            (graph'.nodes = graph.nodes /\ graph'.edges = graph.edges)]_vars

\* a drawn graph of three nodes, all coloured
C9_Witness ==
    /\ pc = "done"
    /\ Len(graph.nodes) = 3
    /\ Len(graph.edges) >= 2
    /\ {NodeAttr(graph, n).fillcolor : n \in Range(graph.nodes)} = {"white", "yellow", "green"}

\* C10: the epic-shape pass probes every node of the final graph: in the
\* drawn graph a node has the shape 'folder' exactly when the epic probe for
\* its key succeeded
C10_FolderIffProbeSucceeded ==
    pc = "done" =>
        \A n \in Range(graph.nodes) :
            (NodeAttr(graph, n).shape = "folder") <=> ProbeSucceeded(n)

\* C11: the walk considers subtasks as well as issue links: every subtask
\* of an issue it visited has a node in the graph and an edge relating it to
\* the parent issue
C11_SubtasksMaterialised ==
    pc = "walked" =>
        \A k \in Range(seen) : \A sub \in Range(tracker[k].subtasks) :
            /\ HasNode(graph, sub)
            /\ EdgeCount(graph, k, sub) + EdgeCount(graph, sub, k) >= 1

\* the verbose option was given on the command line
VerboseSupplied == options.verbose # PyBool("False")

\* C12: the verbose option toggles the Epic Expander: once the run is past
\* line 174, the epic's issues were fetched and handed to add_issues_to_graph
\* for the start key exactly when the option was given on the command line
C12_VerboseTogglesExpander ==
    pc \in {"colour", "render", "done"} =>
        (VerboseSupplied <=>
            \E i \in 1..Len(passes) :
                /\ passes[i].pass = "get_issues_in_epic"
                /\ passes[i].epic_key = start_issue_key)

\* a call of add_issues_to_graph the claim C13 is about: the list names
\* issues, each member once, and no member has an edge to or from the epic
C13_FreshMembers(call) ==
    /\ call.pass = "add_issues_to_graph"
    /\ call.issues # <<>>
    /\ \A i, j \in 1..Len(call.issues) : call.issues[i] = call.issues[j] => i = j
    /\ \A m \in Range(call.issues) :
          /\ EdgeCount(call.graph, call.epic_key, m) = 0
          /\ EdgeCount(call.graph, m, call.epic_key) = 0

\* the graph the n-th call of a pass returned
GraphAfter(n) == IF n = Len(passes) THEN graph ELSE passes[n + 1].graph

CycleOther == CHOOSE y \in Keys \ {start_issue_key} : tracker[y].revealed

C14_TwoNodesTwoEdges ==
    failure = "" =>
        /\ Len(fetched) <= 2 /\ Len(stack) <= 2
        /\ pc = "walked" =>
              /\ Len(graph.nodes) = 2
              /\ Range(graph.nodes) = {start_issue_key, CycleOther}
              /\ Len(graph.edges) = 2
              /\ EdgeCount(graph, start_issue_key, CycleOther) = 1
              /\ EdgeCount(graph, CycleOther, start_issue_key) = 1

\* C14: for two issues X and Y where X has an outward record to Y and Y an
\* outward record to X, with or without the mirrored inward records, the walk
\* started at X completes (every step uses up work, it stops only returned or
\* raised, and with every fetch succeeding it never fetches more than twice
\* nor nests deeper than two) and the graph returned has exactly the 2 nodes
\* X and Y and exactly the 2 edges (X -> Y) and (Y -> X)
C14_CycleGivesTwoNodesTwoEdges ==
    /\ []C14_TwoNodesTwoEdges
    /\ [](pc \in {"walked", "aborted"} \/ ENABLED NextWalk)
    /\ [][WalkMeasure' < WalkMeasure]_vars

\* a returned walk of a cycle where both issues carry the mirrored inward
\* record next to their outward record
C14_Witness ==
    /\ pc = "walked" /\ failure = ""
    /\ \A k \in {start_issue_key, CycleOther} :
          /\ Len(tracker[k].issuelinks) = 2
          /\ \E r \in Range(tracker[k].issuelinks) :
                r.outwardIssue # None /\ r.inwardIssue = None
          /\ \E r \in Range(tracker[k].issuelinks) :
                r.inwardIssue # None /\ r.outwardIssue = None
    /\ Len(graph.nodes) = 2 /\ Len(graph.edges) = 2

\* the keys the link list names, in link-list order, within one record the
\* outward key before the inward key
RECURSIVE ChildKeys(_, _)
ChildKeys(links, i) ==
    IF i > Len(links) THEN <<>>
    ELSE (IF links[i].outwardIssue # None THEN <<links[i].outwardIssue>> ELSE <<>>)
         \o (IF links[i].inwardIssue # None THEN <<links[i].inwardIssue>> ELSE <<>>)
         \o ChildKeys(links, i + 1)

\* depth-first preorder: the keys visited so far, after visiting key / after
\* visiting the children cs[i], cs[i+1], ... in turn
RECURSIVE Dfs(_, _), DfsChildren(_, _, _)
Dfs(key, visited) ==
    IF key \in Range(visited) THEN visited
    ELSE DfsChildren(ChildKeys(tracker[key].issuelinks, 1), 1, Append(visited, key))

DfsChildren(cs, i, visited) ==
    IF i > Len(cs) THEN visited
    ELSE DfsChildren(cs, i + 1, Dfs(cs[i], visited))

Preorder == Dfs(start_issue_key, <<>>)

IsPrefix(a, b) == Len(a) <= Len(b) /\ SubSeq(b, 1, Len(a)) = a

C15_FetchesFollowPreorder ==
    failure = "" =>
        /\ seen = fetched
        /\ IsPrefix(fetched, Preorder)
        /\ pc = "walked" => fetched = Preorder

\* a step that enters a child: the child is not in seen at that moment, the
\* children passed over on the way to it are, and nothing is fetched yet
C15_ChildTakenWhenItsTurnComes ==
    Len(stack') = Len(stack) + 1 /\ stack # <<>> =>
        LET taken == stack'[Len(stack)].next - 1
        IN  /\ Top.next <= taken /\ taken <= Len(Top.children)
            /\ Last(stack').issue_key = Top.children[taken]
            /\ Top.children[taken] \notin Range(seen)
            /\ \A j \in Top.next..(taken - 1) : Top.children[j] \in Range(seen)
            /\ fetched' = fetched /\ seen' = seen

\* C15: with every fetch succeeding, the sequence of fetches is at every
\* moment a prefix of, and at return equal to, the depth-first preorder of the
\* link data from the start key with children in link-list order (within a
\* record outward before inward); seen is the sequence of fetches (a key
\* enters seen in the step of its own fetch, before any child is fetched);
\* and a child is entered only if it is not in seen when its turn comes,
\* whatever was the case when it was collected
C15_DepthFirstPreorder ==
    /\ []C15_FetchesFollowPreorder
    /\ [][C15_ChildTakenWhenItsTurnComes]_vars

\* a returned walk of three issues: the start issue collected two distinct
\* children, and the second one entered seen in the subtree of the first, so
\* it was skipped when its turn came
C15_Witness ==
    /\ pc = "walked" /\ failure = ""
    /\ Len(fetched) = 3
    /\ LET cs == ChildKeys(tracker[start_issue_key].issuelinks, 1)
       IN  /\ Len(cs) = 2 /\ cs[1] # cs[2]
           /\ start_issue_key \notin Range(cs)
           /\ fetched = <<start_issue_key, cs[1], cs[2]>>
           /\ cs[2] \in LinkedKeys(cs[1])

\* C16: nodes are never duplicated, and in every step of the walk a key that
\* already has a node keeps that node as it was: it stays in the node list at
\* its place, no second node is made for it, and its attributes (label,
\* shape, style, ...) are left as they were, also when the step adds a new
\* edge that ends at it
C16_ExistingNodeLeftAsItWas ==
    [][/\ Len(graph'.nodes) = Cardinality(Range(graph'.nodes))
       /\ SubSeq(graph'.nodes, 1, Len(graph.nodes)) = graph.nodes
       /\ \A n \in Range(graph.nodes) : NodeAttr(graph', n) = NodeAttr(graph, n)]_vars

\* the nodes joined to the nodes in `found` by edges taken in either direction
RECURSIVE JoinedTo(_, _)
JoinedTo(g, found) ==
    LET more == found
                \cup {g.edges[i].target : i \in {j \in 1..Len(g.edges) : g.edges[j].source \in found}}
                \cup {g.edges[i].source : i \in {j \in 1..Len(g.edges) : g.edges[j].target \in found}}
    IN  IF more = found THEN found ELSE JoinedTo(g, more)

\* C17: when the walk returns normally from the graph holding only the start
\* node, the node set is the set of keys in seen (every node was fetched and
\* every fetched key is a node), and every node is joined to the start node
\* by a path of edges ignoring direction
C17_NodesAreSeenAndConnected ==
    pc = "walked" =>
        /\ Range(graph.nodes) = Range(seen)
        /\ Range(seen) = Range(fetched)
        /\ Range(graph.nodes) = JoinedTo(graph, {start_issue_key})

\* a returned walk of three issues, one of them reached only against the
\* direction of its edge (through an inward record)
C17_Witness ==
    /\ pc = "walked"
    /\ Len(graph.nodes) = 3 /\ Len(seen) = 3
    /\ \E n \in Range(graph.nodes) \ {start_issue_key} :
          /\ \A i \in 1..Len(graph.edges) : graph.edges[i].target # n
          /\ \E i \in 1..Len(graph.edges) : graph.edges[i].source = n

\* the edge (u, v) comes from a link record of an issue fetched so far
FromFetchedRecord(u, v) ==
    \E k \in Range(seen) :
        /\ tracker[k].revealed
        /\ \E r \in Range(tracker[k].issuelinks) : Yields(r, k, u, v)

\* C18: at every point of the walk each edge (a, b) of the graph comes from
\* a link record of an already-fetched issue (a was fetched and has an
\* outward record to b, or b was fetched and has an inward record from a),
\* and when the walk returns normally every outward record (A, B) and every
\* inward record (C, A) of every fetched issue A has its ordered pair in the
\* graph as an edge
C18_EdgesAreTheLinkRelation ==
    /\ \A i \in 1..Len(graph.edges) :
          FromFetchedRecord(graph.edges[i].source, graph.edges[i].target)
    /\ pc = "walked" =>
          \A k \in Range(fetched) : \A r \in Range(tracker[k].issuelinks) :
              /\ r.outwardIssue # None => PairInEdges(k, r.outwardIssue, graph)
              /\ r.inwardIssue # None => PairInEdges(r.inwardIssue, k, graph)

\* a returned walk whose graph has an edge out of a fetched issue made by an
\* outward record and an edge into a fetched issue made by an inward record,
\* between different issues
C18_Witness ==
    /\ pc = "walked"
    /\ \E k \in Range(fetched) : \E r \in Range(tracker[k].issuelinks) :
          /\ r.outwardIssue \notin {None, k}
          /\ EdgeCount(graph, k, r.outwardIssue) = 1
    /\ \E k \in Range(fetched) : \E r \in Range(tracker[k].issuelinks) :
          /\ r.inwardIssue \notin {None, k}
          /\ EdgeCount(graph, r.inwardIssue, k) = 1
          /\ \A q \in Range(tracker[r.inwardIssue].issuelinks) : q.outwardIssue # k

====
